---- MODULE Spec2Model ----
(***************************************************************************)
(* Credential resolution and caching of mcp-turso-cloud:                   *)
(*   src/clients/token-manager.ts  token cache, issuance, eviction         *)
(*   src/clients/database.ts       client cache, data-plane calls          *)
(*   src/tools/context.ts          session context, database resolution    *)
(*   src/tools/database.ts         tool handlers (register_database_tools) *)
(* Time is in milliseconds (JavaScript Date); a JWT exp claim in seconds.  *)
(* Every asynchronous function is cut at its awaits: one action runs the   *)
(* code from one suspension point to the next.                             *)
(***************************************************************************)
EXTENDS Integers, Sequences, FiniteSets, TLC

\* ---------------------------------------------------------------- bounds
MaxTicks == 3
MaxIssued == 3
TickMs == 1800000
TOKEN_EXPIRATION_S == 1800

\* ------------------------------------------------------ program constants
HourMs == 3600000
MsPerSecond == 1000

Calls == {1, 2}
Databases == {"db1", "db2"}
Permissions == {"full-access", "read-only"}
Undefined == "undefined"
\* values a caller can pass as the optional `database` argument
DatabaseArgs == Databases \cup {Undefined, ""}
\* values of TURSO_DEFAULT_DATABASE
DefaultDatabases == {Undefined, "", "db2"}

\* JavaScript truthiness of an optional string
Truthy(s) == s # Undefined /\ s # ""

OtherPermission(p) == IF p = "full-access" THEN "read-only" ELSE "full-access"

\* --------------------------------------------------------------- queries
\* SQL text is a sequence of characters
Q_select == <<"S", "E", "L", "E", "C", "T", " ", "1">>
Q_pragma == <<" ", "p", "r", "a", "g", "m", "a", " ", "x">>
Q_insert == <<"I", "N", "S", "E", "R", "T">>
Q_vector == <<"\n", " ", "S", "E", "L", "E", "C", "T", " ", "*">>
Q_none == <<>>
Queries == {Q_select, Q_pragma, Q_insert}

IsWhitespace(ch) == ch \in {" ", "\n", "\t"}

RECURSIVE TrimStart(_)
TrimStart(s) ==
    IF s = <<>> THEN s
    ELSE IF IsWhitespace(Head(s)) THEN TrimStart(Tail(s)) ELSE s

RECURSIVE TrimEnd(_)
TrimEnd(s) ==
    IF s = <<>> THEN s
    ELSE IF IsWhitespace(s[Len(s)]) THEN TrimEnd(SubSeq(s, 1, Len(s) - 1)) ELSE s

Trim(s) == TrimEnd(TrimStart(s))

LowerChar(ch) ==
    CASE ch = "S" -> "s" [] ch = "E" -> "e" [] ch = "L" -> "l"
      [] ch = "C" -> "c" [] ch = "T" -> "t" [] ch = "I" -> "i"
      [] ch = "N" -> "n" [] ch = "R" -> "r" [] ch = "P" -> "p"
      [] ch = "A" -> "a" [] ch = "G" -> "g" [] ch = "M" -> "m"
      [] OTHER -> ch

ToLowerCase(s) == [i \in 1..Len(s) |-> LowerChar(s[i])]

StartsWith(s, prefix) ==
    Len(s) >= Len(prefix) /\ SubSeq(s, 1, Len(prefix)) = prefix

KW_select == <<"s", "e", "l", "e", "c", "t">>
KW_pragma == <<"p", "r", "a", "g", "m", "a">>

\* ------------------------------------------------------------------ JWTs
\* A value of `data.jwt`: id 0 is a response without a jwt field; parts is the
\* number of dot-separated parts, payload tells whether the second part is
\* base64 of JSON text, exp is the expiration claim in seconds, -1 when the
\* payload has no numeric exp.  db and perm record what the remote service
\* issued the token for.
NoJwt == [id |-> 0, db |-> Undefined, perm |-> Undefined,
          parts |-> 0, payload |-> "none", exp |-> -1]

NoError == [name |-> "none", status_code |-> 0, message |-> <<>>]

\* no CallTool response: the step did not end a tool call
NoResponse == [isError |-> FALSE, text |-> <<>>, thrown |-> FALSE]

\* ---------------------------------------------------------------- state
VARIABLES
    now,             \* the clock read by `new Date()`, in ms
    token_cache,     \* token-manager.ts: token_cache, database name -> CachedToken
    client_cache,    \* database.ts: client_cache, <<database, permission>> -> Client
    context,         \* context.ts: context.currentDatabase
    config_default,  \* config.ts: TURSO_DEFAULT_DATABASE
    calls,           \* the invocations suspended on the network, with their locals
    issuance_calls,  \* number of POSTs sent to the token issuance endpoint
    last_returned,   \* <<database, permission>> -> last token get_database_token returned
    last_explicit,   \* the explicit database name of the last operation that resolved one
    event            \* what the step just taken did, as its caller observes it

vars == <<now, token_cache, client_cache, context, config_default, calls,
          issuance_calls, last_returned, last_explicit, event>>

DataPlaneTools == {"list_tables", "execute_read_only_query", "execute_query",
                   "describe_table", "vector_search"}

NoReturn == [some |-> FALSE, jwt |-> NoJwt, expiresAt |-> -1]

\* the locals of a suspended invocation
IdleCall == [
    pc |-> "idle",               \* idle | issuing | querying
    op |-> "none",               \* get_database_token or a tool name
    query |-> Q_none,            \* the SQL text argument
    database_name |-> Undefined, \* result of resolve_database_name
    permission |-> Undefined,    \* permission passed to get_database_client
    stale_expiresAt |-> -1,      \* expiresAt of the expired entry found at the check
    req_id |-> 0 ]               \* number of the issuance request in flight

\* the observation of one step: which code ran, on what, with what outcome
NoEvent == [
    action |-> "none",           \* call | issued | issuance_failed | query_ok | query_failed
    op |-> "none",
    database |-> Undefined,      \* the optional `database` argument
    query |-> Q_none,
    ctx_at_resolve |-> Undefined, \* context.currentDatabase read by the resolver
    resolved |-> FALSE,          \* resolve_database_name was called
    database_name |-> Undefined,
    permission |-> Undefined,
    token_requested |-> FALSE,   \* get_database_token was called by the operation
    check_time |-> -1,           \* clock at the cache check
    hit |-> FALSE,               \* the token came from token_cache
    hit_expiresAt |-> -1,        \* expiresAt of the entry that was hit
    stale_expiresAt |-> -1,
    prev |-> NoReturn,           \* last token returned for the pair before the check
    issuance_started |-> FALSE,  \* the step sent an issuance POST
    issuances |-> 0,             \* issuance calls made by the invocation so far
    req_id |-> 0,                \* number of the issuance request that was answered
    replaced |-> NoJwt,          \* jwt of the entry the store overwrote
    returned |-> FALSE,          \* get_database_token returned a value
    jwt |-> NoJwt,               \* the value get_database_token returned
    expiresAt |-> -1,            \* expiresAt cached together with jwt
    contacted |-> FALSE,         \* client.execute was called in this step
    auth |-> NoJwt,              \* authToken of the client used for the query
    status |-> -1,               \* HTTP status of the issuance answer; 0: fetch rejected
    finished |-> FALSE,          \* the invocation ended in this step
    response |-> NoResponse,     \* what the tool handler returned to the MCP client
    error |-> NoError ]

\* ------------------------------------------------- token-manager.ts: pure
\* variant: exp is read without checking the shape of the token
exp_decodable_any_shape(jwt) == jwt.id # 0 /\ jwt.exp >= 0

\* the try block of get_token_expiration reaches its return: the value is a
\* string of three parts, the second decodes to JSON, and exp is a number
exp_decodable(jwt) ==
    /\ jwt.id # 0
    /\ jwt.parts = 3
    /\ jwt.payload = "json"
    /\ jwt.exp >= 0

\* variant: the fallback forgets to add the hour
get_token_expiration_no_hour(jwt, t) ==
    IF exp_decodable(jwt)
    THEN jwt.exp * MsPerSecond
    ELSE t

\* variant: the expiry is the clock plus the configured TOKEN_EXPIRATION
get_token_expiration_from_config(jwt, t) ==
    IF exp_decodable(jwt)
    THEN t + TOKEN_EXPIRATION_S * MsPerSecond
    ELSE t + HourMs

\* get_token_expiration(jwt), evaluated at clock t
get_token_expiration(jwt, t) ==
    IF exp_decodable(jwt)
    THEN jwt.exp * MsPerSecond
    ELSE t + HourMs

\* variant: an entry is still served at the instant it expires
cached_token_valid_inclusive(cache, database_name, permission, t) ==
    /\ database_name \in DOMAIN cache
    /\ cache[database_name].permission = permission
    /\ cache[database_name].expiresAt >= t

\* variant: the permission of the cached entry is not compared
cached_token_valid_any_permission(cache, database_name, permission, t) ==
    /\ database_name \in DOMAIN cache
    /\ cache[database_name].expiresAt > t

\* the `if` of get_database_token: a cached token that may be returned
cached_token_valid(cache, database_name, permission, t) ==
    /\ database_name \in DOMAIN cache
    /\ cache[database_name].permission = permission
    /\ cache[database_name].expiresAt > t

\* the entry stored after a successful issuance
CachedToken(jwt, permission, t) ==
    [jwt |-> jwt, expiresAt |-> get_token_expiration(jwt, t), permission |-> permission]

\* variant: the fields are written one by one and the permission of an
\* entry already present is kept
store_token_keeps_permission(cache, database_name, entry) ==
    [d \in DOMAIN cache \cup {database_name} |->
        IF d # database_name THEN cache[d]
        ELSE IF d \in DOMAIN cache
             THEN [entry EXCEPT !.permission = cache[d].permission]
             ELSE entry]

\* variant: an entry already present is not overwritten
store_token_first_wins(cache, database_name, entry) ==
    IF database_name \in DOMAIN cache THEN cache
    ELSE [d \in DOMAIN cache \cup {database_name} |->
            IF d = database_name THEN entry ELSE cache[d]]

\* `token_cache[database_name] = {...}`
store_token(cache, database_name, entry) ==
    [d \in DOMAIN cache \cup {database_name} |->
        IF d = database_name THEN entry ELSE cache[d]]

\* variant: an entry that expires exactly at the sweep is kept
cleanup_keeps_boundary(cache, t) ==
    [d \in {x \in DOMAIN cache : ~(cache[x].expiresAt < t)} |-> cache[d]]

\* variant: the sweep also removes what will expire before the next sweep
cleanup_evicts_early(cache, t) ==
    [d \in {x \in DOMAIN cache : ~(cache[x].expiresAt <= t + HourMs)} |-> cache[d]]

\* cleanup_expired_tokens(): the cache after the sweep at clock t
cleanup(cache, t) ==
    [d \in {x \in DOMAIN cache : ~(cache[x].expiresAt <= t)} |-> cache[d]]

\* ------------------------------------------------------ context.ts: pure
\* variant: the configured default wins over the session context
get_current_database_default_first(ctx, dflt) ==
    IF Truthy(dflt) THEN dflt ELSE ctx

\* get_current_database(): `context.currentDatabase || TURSO_DEFAULT_DATABASE`
get_current_database(ctx, dflt) ==
    IF Truthy(ctx) THEN ctx ELSE dflt

\* variant: the assignment is lost
set_current_database_lost(ctx, database_name) == ctx

\* variant: the assignment clears the context
set_current_database_unset(ctx, database_name) == Undefined

\* set_current_database(database_name): the new context.currentDatabase
set_current_database(ctx, database_name) == database_name

\* variant: only `undefined` is refused, an empty name passes
resolve_database_name_undefined_only(provided_name, ctx, dflt) ==
    IF Truthy(provided_name) THEN provided_name
    ELSE get_current_database(ctx, dflt)

\* resolve_database_name(provided_name): the name, or Undefined when it throws
resolve_database_name(provided_name, ctx, dflt) ==
    LET database_name ==
            IF Truthy(provided_name) THEN provided_name
            ELSE get_current_database(ctx, dflt)
    IN IF ~Truthy(database_name) THEN Undefined ELSE database_name

NO_DATABASE_MESSAGE ==
    <<"No database specified. Please provide a database name or set a default database.">>

NoDatabaseError ==
    [name |-> "Error", status_code |-> 0, message |-> NO_DATABASE_MESSAGE]

\* ------------------------------------------------ database.ts (clients)
Q_list == <<"S", "E", "L", "E", "C", "T", " ", "n", "a", "m", "e">>
Q_describe == <<"P", "R", "A", "G", "M", "A", " ", "t">>

\* execute_query: `query.trim().toLowerCase().startsWith('select')`
is_read_only(query) == StartsWith(ToLowerCase(Trim(query)), KW_select)

\* the SQL text a tool sends through client.execute
tool_sql(op, query) ==
    CASE op = "list_tables" -> Q_list
      [] op = "describe_table" -> Q_describe
      [] op = "vector_search" -> Q_vector
      [] OTHER -> query

\* the permission a tool's client function passes to get_database_client
tool_permission(op, query) ==
    IF op \in {"list_tables", "describe_table"} THEN "read-only"
    ELSE IF is_read_only(tool_sql(op, query)) THEN "read-only" ELSE "full-access"

\* the prefix the catch block of a tool's client function puts before a message
tool_failure_prefix(op, database_name) ==
    CASE op = "list_tables" -> <<"Failed to list tables for database ", database_name, ": ">>
      [] op = "describe_table" ->
            <<"Failed to describe table ", "t", " for database ", database_name, ": ">>
      [] OTHER -> <<"Failed to execute query for database ", database_name, ": ">>

\* the error a caller of get_database_token's caller chain sees
wrap_error(op, database_name, err) ==
    IF op = "get_database_token" THEN err
    ELSE [name |-> "TursoApiError", status_code |-> 500,
          message |-> tool_failure_prefix(op, database_name) \o err.message]

\* ------------------------------------------------------- common/errors.ts
\* handle_error(error): the McpError code and the prefix put before the message
handle_error(err) ==
    IF err.name = "TursoApiError"
    THEN CASE err.status_code \in {401, 403} ->
                [code |-> "InvalidParams", prefix |-> "Authentication error: "]
           [] err.status_code = 404 ->
                [code |-> "InvalidRequest", prefix |-> "Not found: "]
           [] err.status_code >= 400 /\ err.status_code < 500 ->
                [code |-> "InvalidRequest", prefix |-> ""]
           [] OTHER -> [code |-> "InternalError", prefix |-> ""]
    ELSE [code |-> "InternalError", prefix |-> ""]

\* ------------------------------------------- tool handlers: the responses
\* variant: the catch block lets the error escape the handler
error_response_rethrows(err) ==
    [isError |-> FALSE, text |-> <<>>, thrown |-> TRUE]

\* the catch block of the CallTool handler: `Error: ${message}`, isError: true
error_response(err) ==
    [isError |-> TRUE, text |-> <<"Error: ">> \o err.message, thrown |-> FALSE]

\* the return of a tool branch that ran to its end: the JSON text of the result
success_response(op, database_name) ==
    [isError |-> FALSE, text |-> <<"{database: ", database_name, ", ...}">>, thrown |-> FALSE]

\* what ends an invocation that failed: a direct caller of get_database_token
\* gets the exception, a tool call gets the response of the catch block
failure_response(op, err) ==
    IF op = "get_database_token" THEN NoResponse ELSE error_response(err)

\* `throw new Error(`Unknown tool: ${request.params.name}`)`
unknown_tool_error(op) ==
    [name |-> "Error", status_code |-> 0, message |-> <<"Unknown tool: ", op>>]

\* -------------------------------------------- tools/database.ts: validation
normalized_query(query) == ToLowerCase(Trim(query))

starts_select_or_pragma(query) ==
    \/ StartsWith(normalized_query(query), KW_select)
    \/ StartsWith(normalized_query(query), KW_pragma)

\* the guard of a query tool throws
query_rejected(op, query) ==
    \/ op = "execute_read_only_query" /\ ~starts_select_or_pragma(query)
    \/ op = "execute_query" /\ starts_select_or_pragma(query)

rejection_error(op) ==
    [name |-> "Error", status_code |-> 0,
     message |-> IF op = "execute_read_only_query"
                 THEN <<"Only SELECT and PRAGMA queries are allowed with execute_read_only_query">>
                 ELSE <<"SELECT and PRAGMA queries should use execute_read_only_query">>]

\* -------------------------------------------- token-manager.ts: operations
\* get_database_token up to its first await: the cache check, then either
\* the cached jwt or the POST of generate_database_token
token_check(ev, database_name, permission) ==
    LET valid == cached_token_valid(token_cache, database_name, permission, now)
        expired == /\ database_name \in DOMAIN token_cache
                   /\ token_cache[database_name].permission = permission
                   /\ ~valid
    IN [ev EXCEPT
          !.database_name = database_name,
          !.permission = permission,
          !.token_requested = TRUE,
          !.check_time = now,
          !.prev = last_returned[<<database_name, permission>>],
          !.stale_expiresAt = IF expired THEN token_cache[database_name].expiresAt ELSE -1,
          !.hit = valid,
          !.hit_expiresAt = IF valid THEN token_cache[database_name].expiresAt ELSE -1,
          !.returned = valid,
          !.jwt = IF valid THEN token_cache[database_name].jwt ELSE NoJwt,
          !.expiresAt = IF valid THEN token_cache[database_name].expiresAt ELSE -1,
          !.issuance_started = ~valid,
          !.issuances = IF valid THEN 0 ELSE 1,
          !.finished = valid]

\* the jwt field of a 2xx response of the issuance endpoint
issued_jwt(kind, req_id, database_name, permission, t) ==
    LET granted == [id |-> req_id, db |-> database_name, perm |-> permission,
                    parts |-> 3, payload |-> "json",
                    exp |-> (t \div MsPerSecond) + TOKEN_EXPIRATION_S]
    IN CASE kind = "nojwt" -> NoJwt
         [] kind = "badexp" -> [granted EXCEPT !.exp = -1]
         [] kind = "twoparts" -> [granted EXCEPT !.parts = 2]
         [] kind = "notjson" -> [granted EXCEPT !.payload = "garbage", !.exp = -1]
         [] kind = "short" ->
               [granted EXCEPT !.exp = (t \div MsPerSecond) + (TOKEN_EXPIRATION_S \div 2)]
         [] OTHER -> granted

StatusText(status) ==
    CASE status = 401 -> "Unauthorized"
      [] status = 403 -> "Forbidden"
      [] status = 404 -> "Not Found"
      [] OTHER -> "Service Unavailable"

\* the TursoApiError generate_database_token throws; status 0 is a rejected fetch
issuance_error(database_name, status) ==
    [name |-> "TursoApiError",
     status_code |-> IF status = 0 THEN 500 ELSE status,
     message |-> <<"Failed to generate token for database ", database_name, ": ",
                   IF status = 0 THEN "fetch failed" ELSE StatusText(status)>>]

returned_record(ev) == [some |-> TRUE, jwt |-> ev.jwt, expiresAt |-> ev.expiresAt]

\* ------------------------------------------------------------------ Init
NoTokens == [d \in {} |-> [jwt |-> NoJwt, expiresAt |-> -1, permission |-> Undefined]]
NoClients == [k \in {} |-> [authToken |-> NoJwt]]

Init ==
    /\ now = 0
    /\ token_cache = NoTokens
    /\ client_cache = NoClients
    /\ context = Undefined
    /\ config_default \in DefaultDatabases
    /\ calls = [c \in Calls |-> IdleCall]
    /\ issuance_calls = 0
    /\ last_returned = [k \in (Databases \cup {""}) \X Permissions |-> NoReturn]
    /\ last_explicit = Undefined
    /\ event = NoEvent

\* a new invocation takes the first free slot
Free(c) == calls[c].pc = "idle" /\ \A x \in Calls : x < c => calls[x].pc # "idle"

\* `client_cache[cache_key] = client`
store_client(cache, key, jwt) ==
    [k \in DOMAIN cache \cup {key} |-> IF k = key THEN [authToken |-> jwt] ELSE cache[k]]

\* the locals an invocation keeps while its issuance POST is in flight
issuing_call(ev) ==
    [pc |-> "issuing", op |-> ev.op, query |-> ev.query,
     database_name |-> ev.database_name, permission |-> ev.permission,
     stale_expiresAt |-> ev.stale_expiresAt, req_id |-> issuance_calls + 1]

\* the locals an invocation keeps while client.execute is in flight
querying_call(ev) ==
    [pc |-> "querying", op |-> ev.op, query |-> ev.query,
     database_name |-> ev.database_name, permission |-> ev.permission,
     stale_expiresAt |-> -1, req_id |-> 0]

\* `client.execute(...)`: the request leaves with the client's authToken
start_query(ev, jwt) ==
    [ev EXCEPT !.contacted = TRUE, !.auth = jwt, !.finished = FALSE]

\* --------------------------------------------------------------- actions
\* variant: a call that misses while an issuance for the same pair is in
\* flight waits for that one instead of sending its own POST
GetDatabaseToken_joins_in_flight(c, database_name, permission) ==
    LET ev == token_check([NoEvent EXCEPT !.action = "call", !.op = "get_database_token"],
                          database_name, permission)
        same == {x \in Calls : /\ calls[x].pc = "issuing"
                               /\ calls[x].database_name = database_name
                               /\ calls[x].permission = permission}
    IN /\ Free(c)
       /\ ev.hit \/ issuance_calls < MaxIssued
       /\ event' = ev
       /\ calls' = IF ev.hit THEN calls
                   ELSE IF same # {}
                   THEN [calls EXCEPT ![c] = calls[CHOOSE x \in same : TRUE]]
                   ELSE [calls EXCEPT ![c] = issuing_call(ev)]
       /\ issuance_calls' = IF same # {} THEN issuance_calls
                            ELSE issuance_calls + ev.issuances
       /\ last_returned' =
            IF ev.hit
            THEN [last_returned EXCEPT ![<<database_name, permission>>] = returned_record(ev)]
            ELSE last_returned
       /\ UNCHANGED <<now, token_cache, client_cache, context, config_default, last_explicit>>

\* A direct call get_database_token(database_name, permission), up to the
\* return of the cached jwt or the await of the issuance POST.
GetDatabaseToken(c, database_name, permission) ==
    LET ev == token_check([NoEvent EXCEPT !.action = "call", !.op = "get_database_token"],
                          database_name, permission)
    IN /\ Free(c)
       /\ ev.hit \/ issuance_calls < MaxIssued
       /\ event' = ev
       /\ calls' = IF ev.hit THEN calls ELSE [calls EXCEPT ![c] = issuing_call(ev)]
       /\ issuance_calls' = issuance_calls + ev.issuances
       /\ last_returned' =
            IF ev.hit
            THEN [last_returned EXCEPT ![<<database_name, permission>>] = returned_record(ev)]
            ELSE last_returned
       /\ UNCHANGED <<now, token_cache, client_cache, context, config_default, last_explicit>>

\* variant: the context is bound to whatever name the resolver returned
update_context_binds_resolved(ctx, database, database_name) ==
    set_current_database(ctx, database_name)

\* `if (database) { set_current_database(database); }`
update_context(ctx, database, database_name) ==
    IF Truthy(database) THEN set_current_database(ctx, database) ELSE ctx

\* A CallTool request for a data-plane tool, from the request to its first
\* await on the network: the query-type guard where the handler has one
\* (validates), resolve_database_name, set_current_database, then
\* get_database_client of the tool's client function.
ToolCall(c, op, database, query, validates) ==
    LET base == [NoEvent EXCEPT !.action = "call", !.op = op, !.database = database,
                                !.query = query]
        database_name == resolve_database_name(database, context, config_default)
        resolved == [base EXCEPT !.resolved = TRUE, !.ctx_at_resolve = context,
                                 !.database_name = database_name]
        permission == tool_permission(op, query)
        key == <<database_name, permission>>
        asked == [resolved EXCEPT !.permission = permission]
        checked == token_check(asked, database_name, permission)
    IN /\ Free(c)
       /\ query \in (IF op \in {"execute_query", "execute_read_only_query"}
                     THEN Queries ELSE {Q_none})
       /\ UNCHANGED <<now, token_cache, config_default>>
       /\ IF validates /\ query_rejected(op, query)
          THEN /\ event' = [base EXCEPT !.finished = TRUE, !.error = rejection_error(op),
                                        !.response = error_response(rejection_error(op))]
               /\ UNCHANGED <<calls, client_cache, context, issuance_calls, last_returned,
                              last_explicit>>
          ELSE IF database_name = Undefined
          THEN /\ event' = [resolved EXCEPT !.finished = TRUE, !.error = NoDatabaseError,
                                            !.response = error_response(NoDatabaseError)]
               /\ UNCHANGED <<calls, client_cache, context, issuance_calls, last_returned,
                              last_explicit>>
          ELSE /\ context' = update_context(context, database, database_name)
               /\ last_explicit' = IF Truthy(database) THEN database ELSE last_explicit
               /\ IF key \in DOMAIN client_cache
                  THEN /\ event' = start_query(asked, client_cache[key].authToken)
                       /\ calls' = [calls EXCEPT ![c] = querying_call(asked)]
                       /\ UNCHANGED <<client_cache, issuance_calls, last_returned>>
                  ELSE IF checked.hit
                  THEN /\ event' = start_query(checked, checked.jwt)
                       /\ calls' = [calls EXCEPT ![c] = querying_call(checked)]
                       /\ client_cache' = store_client(client_cache, key, checked.jwt)
                       /\ last_returned' =
                            [last_returned EXCEPT ![key] = returned_record(checked)]
                       /\ UNCHANGED issuance_calls
                  ELSE /\ issuance_calls < MaxIssued
                       /\ event' = checked
                       /\ calls' = [calls EXCEPT ![c] = issuing_call(checked)]
                       /\ issuance_calls' = issuance_calls + 1
                       /\ UNCHANGED <<client_cache, last_returned>>

\* the handler of register_database_tools (tools/database.ts)
CallTool(c, op, database, query) == ToolCall(c, op, database, query, TRUE)

\* the tools register_tools (tools/handler.ts) serves: no execute_read_only_query
HandlerTools == {"list_tables", "execute_query", "describe_table", "vector_search"}

\* the handler of register_tools (tools/handler.ts), which index.ts registers:
\* the same steps without a query-type guard
HandlerCallTool(c, op, database, query) ==
    IF op \in HandlerTools
    THEN ToolCall(c, op, database, query, FALSE)
    ELSE /\ Free(c)
         /\ event' = [NoEvent EXCEPT !.action = "call", !.op = op, !.database = database,
                                      !.query = query, !.finished = TRUE,
                                      !.error = unknown_tool_error(op),
                                      !.response = error_response(unknown_tool_error(op))]
         /\ UNCHANGED <<now, token_cache, client_cache, context, config_default, calls,
                        issuance_calls, last_returned, last_explicit>>

\* the observation of a step that resumes a suspended invocation
resumed(rec, action) ==
    [NoEvent EXCEPT !.action = action, !.op = rec.op, !.query = rec.query,
                    !.database_name = rec.database_name, !.permission = rec.permission,
                    !.token_requested = (rec.pc = "issuing"),
                    !.stale_expiresAt = rec.stale_expiresAt,
                    !.req_id = rec.req_id,
                    !.issuances = IF rec.pc = "issuing" THEN 1 ELSE 0]

\* The issuance endpoint answers 2xx: generate_database_token returns data.jwt,
\* get_database_token caches and returns it; a tool goes on to createClient,
\* caches the client and sends its query.
IssuanceOk(c, kind) ==
    LET rec == calls[c]
        jwt == issued_jwt(kind, rec.req_id, rec.database_name, rec.permission, now)
        entry == CachedToken(jwt, rec.permission, now)
        got == [resumed(rec, "issued") EXCEPT
                  !.returned = TRUE, !.jwt = jwt, !.expiresAt = entry.expiresAt,
                  !.replaced = IF rec.database_name \in DOMAIN token_cache
                               THEN token_cache[rec.database_name].jwt ELSE NoJwt,
                  !.finished = TRUE]
        key == <<rec.database_name, rec.permission>>
    IN /\ rec.pc = "issuing"
       /\ token_cache' = store_token(token_cache, rec.database_name, entry)
       /\ last_returned' = [last_returned EXCEPT ![key] = returned_record(got)]
       /\ IF rec.op = "get_database_token"
          THEN /\ event' = got
               /\ calls' = [calls EXCEPT ![c] = IdleCall]
               /\ UNCHANGED client_cache
          ELSE /\ event' = start_query(got, jwt)
               /\ calls' = [calls EXCEPT ![c] = querying_call(got)]
               /\ client_cache' = store_client(client_cache, key, jwt)
       /\ UNCHANGED <<now, context, config_default, issuance_calls, last_explicit>>

\* variant: the failed call leaves an entry without a token behind
IssuanceFail_poisoning(c, status) ==
    LET rec == calls[c]
    IN /\ rec.pc = "issuing"
       /\ event' = [resumed(rec, "issuance_failed") EXCEPT
                      !.finished = TRUE, !.status = status,
                      !.error = wrap_error(rec.op, rec.database_name,
                                           issuance_error(rec.database_name, status)),
                      !.response = failure_response(rec.op,
                                      wrap_error(rec.op, rec.database_name,
                                                 issuance_error(rec.database_name, status)))]
       /\ calls' = [calls EXCEPT ![c] = IdleCall]
       /\ token_cache' = store_token(token_cache, rec.database_name,
                                     CachedToken(NoJwt, rec.permission, now))
       /\ UNCHANGED <<now, client_cache, context, config_default,
                      issuance_calls, last_returned, last_explicit>>

\* variant: a failed POST is sent once more before the caller is failed
IssuanceFail_retries(c, status) ==
    LET rec == calls[c]
    IN /\ rec.pc = "issuing"
       /\ issuance_calls < MaxIssued
       /\ event' = [resumed(rec, "issuance_failed") EXCEPT !.issuances = 2]
       /\ calls' = [calls EXCEPT ![c].req_id = issuance_calls + 1]
       /\ issuance_calls' = issuance_calls + 1
       /\ UNCHANGED <<now, token_cache, client_cache, context, config_default,
                      last_returned, last_explicit>>

\* variant: a failed operation takes its database name back out of the context
IssuanceFail_clears_context(c, status) ==
    LET rec == calls[c]
        err == wrap_error(rec.op, rec.database_name,
                          issuance_error(rec.database_name, status))
    IN /\ rec.pc = "issuing"
       /\ event' = [resumed(rec, "issuance_failed") EXCEPT
                      !.finished = TRUE, !.status = status, !.error = err,
                      !.response = failure_response(rec.op, err)]
       /\ calls' = [calls EXCEPT ![c] = IdleCall]
       /\ context' = Undefined
       /\ UNCHANGED <<now, token_cache, client_cache, config_default,
                      issuance_calls, last_returned, last_explicit>>

\* The issuance endpoint answers non-2xx, or fetch rejects (status 0):
\* generate_database_token throws and every caller up the chain fails.
IssuanceFail(c, status) ==
    LET rec == calls[c]
    IN /\ rec.pc = "issuing"
       /\ event' = [resumed(rec, "issuance_failed") EXCEPT
                      !.finished = TRUE, !.status = status,
                      !.error = wrap_error(rec.op, rec.database_name,
                                           issuance_error(rec.database_name, status)),
                      !.response = failure_response(rec.op,
                                      wrap_error(rec.op, rec.database_name,
                                                 issuance_error(rec.database_name, status)))]
       /\ calls' = [calls EXCEPT ![c] = IdleCall]
       /\ UNCHANGED <<now, token_cache, client_cache, context, config_default,
                      issuance_calls, last_returned, last_explicit>>

\* variant: the response names the database the context holds when the query
\* returns, not the one the operation resolved
QueryOk_reads_context(c) ==
    /\ calls[c].pc = "querying"
    /\ event' = [resumed(calls[c], "query_ok") EXCEPT
                   !.finished = TRUE,
                   !.database_name = get_current_database(context, config_default),
                   !.response = success_response(calls[c].op,
                                   get_current_database(context, config_default))]
    /\ calls' = [calls EXCEPT ![c] = IdleCall]
    /\ UNCHANGED <<now, token_cache, client_cache, context, config_default,
                   issuance_calls, last_returned, last_explicit>>

\* client.execute resolves: the tool returns its result
QueryOk(c) ==
    /\ calls[c].pc = "querying"
    /\ event' = [resumed(calls[c], "query_ok") EXCEPT
                   !.finished = TRUE,
                   !.response = success_response(calls[c].op, calls[c].database_name)]
    /\ calls' = [calls EXCEPT ![c] = IdleCall]
    /\ UNCHANGED <<now, token_cache, client_cache, context, config_default,
                   issuance_calls, last_returned, last_explicit>>

\* client.execute rejects: the tool's client function wraps and rethrows
QueryFail(c) ==
    LET rec == calls[c]
        err == wrap_error(rec.op, rec.database_name,
                          [name |-> "LibsqlError", status_code |-> 0,
                           message |-> <<"query failed">>])
    IN /\ rec.pc = "querying"
       /\ event' = [resumed(rec, "query_failed") EXCEPT
                      !.finished = TRUE, !.error = err,
                      !.response = failure_response(rec.op, err)]
       /\ calls' = [calls EXCEPT ![c] = IdleCall]
       /\ UNCHANGED <<now, token_cache, client_cache, context, config_default,
                      issuance_calls, last_returned, last_explicit>>

\* setInterval(cleanup_expired_tokens, ...): the sweep
cleanup_expired_tokens ==
    /\ token_cache' = cleanup(token_cache, now)
    /\ event' = NoEvent
    /\ UNCHANGED <<now, client_cache, context, config_default, calls, issuance_calls,
                   last_returned, last_explicit>>

\* time passes
Tick ==
    /\ now < MaxTicks * TickMs
    /\ now' = now + TickMs
    /\ event' = NoEvent
    /\ UNCHANGED <<token_cache, client_cache, context, config_default, calls,
                   issuance_calls, last_returned, last_explicit>>

IssuanceKinds == {"exp", "badexp", "nojwt"}
FailureStatuses == {0, 401, 404, 503}

\* The credential cache driven through its exported entry point by two
\* concurrent callers, with the clock and the hourly sweep.
TokenDatabases == {"db1"}

InitToken == Init /\ config_default = Undefined

NextToken ==
    \/ \E c \in Calls, d \in TokenDatabases, p \in Permissions : GetDatabaseToken(c, d, p)
    \/ \E c \in Calls, k \in IssuanceKinds : IssuanceOk(c, k)
    \/ \E c \in Calls, st \in FailureStatuses : IssuanceFail(c, st)
    \/ cleanup_expired_tokens
    \/ Tick

SpecToken == InitToken /\ [][NextToken]_vars

\* The same with what the event loop guarantees: the clock advances and the
\* setInterval timer of the sweep fires. Nothing makes the remote API answer,
\* and generate_database_token arms no timer of its own for the POST.
SpecTokenFair == SpecToken /\ WF_vars(Tick) /\ WF_vars(cleanup_expired_tokens)

\* One caller at a time against an issuance endpoint that answers with every
\* shape of token: well-formed with the lifetime asked for or a shorter one,
\* without a numeric exp, with two parts, with a payload that is not JSON, or
\* with no jwt field at all.
TokenShapes == {"exp", "short", "badexp", "twoparts", "notjson", "nojwt"}

NextIssuer ==
    \/ \E d \in TokenDatabases, p \in Permissions : GetDatabaseToken(1, d, p)
    \/ \E k \in TokenShapes : IssuanceOk(1, k)
    \/ \E st \in FailureStatuses : IssuanceFail(1, st)
    \/ cleanup_expired_tokens
    \/ Tick

SpecIssuer == InitToken /\ [][NextIssuer]_vars

\* The tool handlers served one request at a time.
NextTools ==
    \/ \E op \in DataPlaneTools, d \in DatabaseArgs, q \in Queries \cup {Q_none} :
          CallTool(1, op, d, q)
    \/ IssuanceOk(1, "exp")
    \/ \E st \in FailureStatuses : IssuanceFail(1, st)
    \/ QueryOk(1)
    \/ QueryFail(1)

SpecTools == Init /\ [][NextTools]_vars

\* The tool handlers of register_tools served one request at a time.
NextHandler ==
    \/ \E op \in DataPlaneTools, d \in DatabaseArgs, q \in Queries \cup {Q_none} :
          HandlerCallTool(1, op, d, q)
    \/ IssuanceOk(1, "exp")
    \/ \E st \in FailureStatuses : IssuanceFail(1, st)
    \/ QueryOk(1)
    \/ QueryFail(1)

SpecHandler == Init /\ [][NextHandler]_vars

\* The registered tool handlers with the clock running: requests for one
\* database, served one at a time, while tokens age and the sweep runs.
ClientTools == {"list_tables", "execute_query"}

NextClient ==
    \/ \E op \in ClientTools, d \in {"db1", Undefined}, q \in {Q_insert, Q_none} :
          HandlerCallTool(1, op, d, q)
    \/ IssuanceOk(1, "exp")
    \/ \E st \in FailureStatuses : IssuanceFail(1, st)
    \/ QueryOk(1)
    \/ QueryFail(1)
    \/ cleanup_expired_tokens
    \/ Tick

SpecClient == InitToken /\ [][NextClient]_vars

\* Two requests to the registered handlers in flight at once: while one is
\* suspended on the network the other runs up to its own await.
ConcurrentDatabaseArgs == {"db1", "db2", Undefined}

NextConcurrent ==
    \/ \E c \in Calls, d \in ConcurrentDatabaseArgs : HandlerCallTool(c, "list_tables", d, Q_none)
    \/ \E c \in Calls : IssuanceOk(c, "exp")
    \/ \E c \in Calls, st \in {0, 503} : IssuanceFail(c, st)
    \/ \E c \in Calls : QueryOk(c)
    \/ \E c \in Calls : QueryFail(c)

SpecConcurrent == InitToken /\ [][NextConcurrent]_vars

\* ================================================================ claims
\* the token_cache entry that serves requests for <<database, permission>>
HasEntry(cache, d, p) == d \in DOMAIN cache /\ cache[d].permission = p

TokenCall == event.action = "call" /\ event.op = "get_database_token"

\* C1: get_database_token returns a token from the cache only if the entry's
\* expiresAt is strictly later than the clock at the check; an entry whose
\* expiresAt is equal to or earlier than the clock is never returned from the cache.
C1_CacheHitStrictlyUnexpired ==
    /\ event.hit => event.hit_expiresAt > event.check_time
    /\ (event.token_requested /\ event.action = "call" /\ event.stale_expiresAt >= 0)
          => (~event.hit /\ ~event.returned /\ event.stale_expiresAt <= event.check_time)

\* a token was served from the cache before its expiry
C1_Witness ==
    /\ TokenCall /\ event.hit /\ event.jwt.id # 0
    /\ event.hit_expiresAt > event.check_time

\* C2 (as stated): a second get_token call for a pair, made within the validity
\* window of the token last returned for that pair, returns the same token and
\* makes no issuance call.
C2_SecondCallSameToken ==
    (event.action = "call" /\ event.token_requested /\ event.prev.some
       /\ event.prev.expiresAt > event.check_time)
    => (event.hit /\ event.jwt = event.prev.jwt /\ ~event.issuance_started
          /\ event.issuances = 0)

\* C3 (as stated): storing a token for one permission of a database leaves the
\* entry of the other permission of that database unchanged and still served.
C3_PermissionEntriesIndependent ==
    [][\A d \in Databases, p \in Permissions :
          (event'.action = "issued" /\ event'.database_name = d /\ event'.permission = p
             /\ HasEntry(token_cache, d, OtherPermission(p)))
          => (HasEntry(token_cache', d, OtherPermission(p))
                /\ token_cache'[d] = token_cache[d])]_vars

\* C4: whatever get_database_token(db, p) returns was issued for db and p; a
\* cached token of the other permission is never returned.
C4_ReturnedTokenHasRequestedPermission ==
    (event.returned /\ event.jwt.id # 0)
    => (event.jwt.perm = event.permission /\ event.jwt.db = event.database_name)

\* a read-only request met a valid full-access entry and went to the issuer
C4_Witness ==
    /\ TokenCall /\ event.permission = "read-only" /\ event.issuance_started
    /\ event.database_name \in DOMAIN token_cache
    /\ token_cache[event.database_name].permission = "full-access"
    /\ token_cache[event.database_name].expiresAt > now
    /\ token_cache[event.database_name].jwt.id # 0

\* C5: when the entry of the requested key has expired, the call makes exactly
\* one issuance call, and the token it then returns is cached with an expiresAt
\* strictly later than that of the expired entry.
C5_ExpiredEntryReissuedLater ==
    /\ (event.action = "call" /\ event.token_requested /\ event.stale_expiresAt >= 0)
          => (event.issuance_started /\ event.issuances = 1)
    /\ (event.action = "issued" /\ event.stale_expiresAt >= 0)
          => (event.returned /\ event.issuances = 1
                /\ event.expiresAt > event.stale_expiresAt)

\* an expired entry was replaced by a later one
C5_Witness ==
    /\ event.action = "issued" /\ event.op = "get_database_token"
    /\ event.stale_expiresAt >= 0 /\ event.expiresAt > event.stale_expiresAt

\* C6: a failed issuance makes get_database_token fail and leaves token_cache
\* exactly as it was.
C6_FailedIssuanceLeavesCache ==
    [][event'.action = "issuance_failed"
         => (/\ token_cache' = token_cache
             /\ event'.finished /\ ~event'.returned
             /\ event'.error.name = "TursoApiError")]_vars

\* an issuance failed while the expired entry it was to replace stays cached
C6_Witness ==
    /\ event.action = "issuance_failed" /\ event.op = "get_database_token"
    /\ event.stale_expiresAt >= 0
    /\ HasEntry(token_cache, event.database_name, event.permission)
    /\ token_cache[event.database_name].expiresAt = event.stale_expiresAt

\* C7 (as stated): every contact of a data-plane operation with the remote
\* database is preceded, in that operation, by a get_database_token call.
C7_TokenRequestedBeforeContact ==
    event.contacted => event.token_requested

\* the name the resolution order of the contract yields; Undefined is failure
ResolutionOrder(explicit, ctx, dflt) ==
    CASE explicit \notin {Undefined, ""} -> explicit
      [] explicit \in {Undefined, ""} /\ ctx \notin {Undefined, ""} -> ctx
      [] explicit \in {Undefined, ""} /\ ctx \in {Undefined, ""}
           /\ dflt \notin {Undefined, ""} -> dflt
      [] OTHER -> Undefined

\* C8: resolve_database_name returns the explicit name if non-empty, else the
\* session context's database if set, else the configured default if set, and
\* fails otherwise.
C8_ResolutionPriority ==
    event.resolved =>
       LET want == ResolutionOrder(event.database, event.ctx_at_resolve, config_default)
       IN /\ event.database_name = want
          /\ (want = Undefined) <=> (event.finished /\ event.error.name = "Error")

\* no explicit name, and the context and the default name different databases
C8_Witness ==
    /\ event.resolved /\ event.database = Undefined
    /\ event.ctx_at_resolve = "db1" /\ config_default = "db2"
    /\ event.database_name = "db1"

C10_NoDatabaseSelected ==
    (event.resolved /\ ~Truthy(event.database) /\ ~Truthy(event.ctx_at_resolve)
       /\ ~Truthy(config_default))
    => (/\ event.finished /\ event.database_name = Undefined
        /\ event.error.name = "Error"
        /\ event.error.message =
             <<"No database specified. Please provide a database name or set a default database.">>
        /\ ~event.token_requested /\ ~event.contacted)

\* the resolver refused a request that named no database
C10_Witness ==
    /\ event.resolved /\ event.database = "" /\ config_default = ""
    /\ context = Undefined /\ event.finished /\ event.error.name = "Error"

\* C11: context.currentDatabase changes only in a step of an operation that
\* supplied an explicit database name, and then becomes that name; an
\* operation that resolves through the fallback (the context or the
\* configured default) leaves it unchanged.
C11_ContextChangedOnlyByExplicitName ==
    [][/\ (context' # context)
            => (/\ event'.action = "call" /\ event'.resolved
                /\ Truthy(event'.database) /\ context' = event'.database)
       /\ (event'.action = "call" /\ ~Truthy(event'.database))
            => (context' = context)]_vars

\* an operation ran on the configured default and the context is still unset
C11_Witness ==
    /\ event.resolved /\ ~Truthy(event.database) /\ config_default = "db2"
    /\ event.database_name = "db2" /\ event.issuance_started
    /\ context = Undefined

WholeEntry(d, e) ==
    /\ e.permission \in Permissions
    /\ (e.jwt.id # 0) => (e.jwt.db = d /\ e.jwt.perm = e.permission)
    /\ IF exp_decodable(e.jwt)
       THEN e.expiresAt = e.jwt.exp * MsPerSecond
       ELSE LET t == e.expiresAt - HourMs  \* the instant of the store
            IN 0 <= t /\ t <= now

\* C13: under every interleaving of get_database_token calls and sweeps each
\* cache entry is whole (jwt, the expiry computed from that jwt, and the
\* permission that jwt was requested with), and the permission recorded with
\* a token never changes while the token is cached.
C13_EntriesWhole ==
    /\ [](\A d \in DOMAIN token_cache : WholeEntry(d, token_cache[d]))
    /\ [][\A d \in DOMAIN token_cache \cap DOMAIN token_cache' :
             (token_cache'[d].jwt = token_cache[d].jwt /\ token_cache[d].jwt.id # 0)
             => (token_cache'[d] = token_cache[d])]_vars

\* the later of two racing requests stored its entry while the earlier one,
\* for the other permission, is still in flight
C13_Witness ==
    /\ event.action = "issued" /\ "db1" \in DOMAIN token_cache
    /\ token_cache["db1"].jwt.id = 2
    /\ \E c \in Calls : /\ calls[c].pc = "issuing" /\ calls[c].req_id = 1
                        /\ calls[c].permission # token_cache["db1"].permission

\* C14: every issuance that completes leaves its own token in the cache, so
\* of two racing issuances for one key the one that stores last determines
\* the cached token; each caller receives the token of its own request, for
\* the requested permission and not yet expired.
C14_LastStoreWins ==
    (event.action = "issued")
    => (/\ event.database_name \in DOMAIN token_cache
        /\ token_cache[event.database_name].jwt = event.jwt
        /\ token_cache[event.database_name].permission = event.permission
        /\ event.returned
        /\ event.jwt.id \in {0, event.req_id}
        /\ (event.jwt.id # 0) => (/\ event.jwt.perm = event.permission
                                  /\ event.jwt.db = event.database_name)
        /\ event.expiresAt > now
        /\ exp_decodable(event.jwt) => (event.jwt.exp * MsPerSecond > now))

\* two requests for the same key raced; the second one stored first and the
\* first one stored last: the cache holds the token of the first
C14_Witness ==
    /\ event.action = "issued" /\ event.req_id = 1 /\ event.jwt.id = 1
    /\ event.replaced.id = 2 /\ event.replaced.perm = event.permission
    /\ token_cache[event.database_name].jwt.id = 1
    /\ \A c \in Calls : calls[c].pc = "idle"

\* the invocations suspended on an issuance POST
Issuing(cs) == {c \in Calls : cs[c].pc = "issuing"}

ExpectedFailureKind(status) ==
    CASE status \in {401, 403} -> "AuthorizationFailure"
      [] status = 404 -> "NotFound"
      [] OTHER -> "RemoteServiceError"

\* the failure class of an error as handle_error tells the classes apart
FailureKind(err) ==
    CASE handle_error(err).prefix = "Authentication error: " -> "AuthorizationFailure"
      [] handle_error(err).prefix = "Not found: " -> "NotFound"
      [] OTHER -> "RemoteServiceError"

\* C17 (as stated): the error the requesting operation receives for a failed
\* issuance is AuthorizationFailure for HTTP 401/403, NotFound for 404 and
\* RemoteServiceError for any other status and for network failures.
C17_IssuanceFailureClassified ==
    (event.action = "issuance_failed")
    => (/\ event.error.name = "TursoApiError"
        /\ FailureKind(event.error) = ExpectedFailureKind(event.status))

\* a message names a value when the value is one of the pieces it is built from
Mentions(message, value) == \E i \in 1..Len(message) : message[i] = value

\* C18 (as stated): a failed issuance ends the requesting operation with an
\* error that names both the database and the permission level of the
\* token request.
C18_FailureAnnotated ==
    (event.action = "issuance_failed")
    => (/\ event.finished /\ event.error # NoError
        /\ Mentions(event.error.message, event.database_name)
        /\ Mentions(event.error.message, event.permission))

\* C19: when the issued token is not three dot-separated parts, or its
\* payload is not JSON, or its exp is not a number, get_database_token still
\* returns it without an error and caches it with expiresAt one hour after
\* the clock at the time of the store.
C19_UndecodableExpiryFallsBackToOneHour ==
    (/\ event.action = "issued" /\ event.jwt.id # 0
     /\ (event.jwt.parts # 3 \/ event.jwt.payload # "json" \/ event.jwt.exp < 0))
    => (/\ event.returned /\ event.finished /\ event.error = NoError
        /\ event.expiresAt = now + HourMs
        /\ event.database_name \in DOMAIN token_cache
        /\ token_cache[event.database_name] =
             [jwt |-> event.jwt, expiresAt |-> now + HourMs,
              permission |-> event.permission])

\* a two-part token carrying an exp was cached, later than time 0, for one hour
C19_Witness ==
    /\ event.action = "issued" /\ event.jwt.id # 0 /\ event.jwt.parts = 2
    /\ event.jwt.exp >= 0 /\ now > 0 /\ event.returned
    /\ token_cache[event.database_name].expiresAt = now + HourMs

\* C20: when the issued token has a decodable exp claim (in seconds), the
\* cached entry's expiresAt is that instant, exp * 1000 ms, whatever the
\* clock and the configured TOKEN_EXPIRATION are.
C20_ExpiryTakenFromToken ==
    (/\ event.action = "issued" /\ event.jwt.id # 0
     /\ event.jwt.parts = 3 /\ event.jwt.payload = "json" /\ event.jwt.exp >= 0)
    => (/\ event.returned
        /\ event.expiresAt = event.jwt.exp * MsPerSecond
        /\ event.database_name \in DOMAIN token_cache
        /\ token_cache[event.database_name].jwt = event.jwt
        /\ token_cache[event.database_name].expiresAt = event.jwt.exp * MsPerSecond)

\* the issuer granted less than the configured lifetime and the entry
\* expires when the token does
C20_Witness ==
    /\ event.action = "issued" /\ event.jwt.id # 0 /\ exp_decodable(event.jwt)
    /\ now > 0
    /\ event.jwt.exp * MsPerSecond < now + TOKEN_EXPIRATION_S * MsPerSecond
    /\ token_cache[event.database_name].expiresAt = event.jwt.exp * MsPerSecond

\* a step of the sweep: the only step that clears the observation while the
\* clock stands still
SweepStep == event' = NoEvent /\ now' = now

\* C21: after a sweep at clock t the cache holds exactly the entries it held
\* before whose expiresAt is later than t, each unchanged.
C21_SweepRemovesExactlyExpired ==
    [][SweepStep =>
         (/\ DOMAIN token_cache' =
               {d \in DOMAIN token_cache : token_cache[d].expiresAt > now}
          /\ \A d \in DOMAIN token_cache' : token_cache'[d] = token_cache[d])]_vars

\* a token that was stored and has expired is no longer in the cache
C21_Witness ==
    /\ event = NoEvent /\ "db1" \notin DOMAIN token_cache
    /\ \E p \in Permissions :
          /\ last_returned[<<"db1", p>>].some
          /\ last_returned[<<"db1", p>>].expiresAt <= now

\* the instants at which a later lookup can read the clock
LaterInstants == {now + k * TickMs : k \in 0..MaxTicks}

\* what a lookup at clock t answers from the cache: the cached jwt, or a miss
Lookup(cache, d, p, t) ==
    IF cached_token_valid(cache, d, p, t) THEN cache[d].jwt ELSE NoJwt

\* C22: a sweep changes the answer of no present or later lookup: for every
\* database, permission and instant from now on, a lookup hits after the
\* sweep exactly if it would have hit without it, and returns the same token;
\* so the tokens returned and the issuance calls made do not depend on when
\* sweeps run.
C22_SweepInvisibleToLookups ==
    [][SweepStep =>
         \A d \in TokenDatabases, p \in Permissions, t \in LaterInstants :
            /\ cached_token_valid(token_cache', d, p, t)
                 = cached_token_valid(token_cache, d, p, t)
            /\ Lookup(token_cache', d, p, t) = Lookup(token_cache, d, p, t)]_vars

\* a sweep removed the expired token of a pair and the next call for the pair
\* went to the issuer, as it would have with the expired entry still there
C22_Witness ==
    /\ TokenCall /\ event.issuance_started /\ event.issuances = 1
    /\ event.prev.some /\ event.prev.expiresAt <= event.check_time
    /\ event.database_name \notin DOMAIN token_cache

\* C23 (as stated): every jwt in the cache and every value get_database_token
\* returns is a token the issuance service produced; an answer without a
\* token fails the call and is neither cached nor returned.
C23_NoAbsentToken ==
    /\ \A d \in DOMAIN token_cache : token_cache[d].jwt # NoJwt
    /\ (event.returned) => (event.jwt # NoJwt)

\* the handler let the query through its query-type guard
Accepted(ev) == ev.resolved

\* C24 (as stated): execute_read_only_query accepts a query exactly if its
\* trimmed, lower-cased text starts with 'select' or 'pragma', and
\* execute_query rejects exactly those queries.
C24_QueryToolsPartition ==
    (event.action = "call" /\ event.op \in {"execute_read_only_query", "execute_query"})
    => LET text == ToLowerCase(Trim(event.query))
           read_only == StartsWith(text, KW_select) \/ StartsWith(text, KW_pragma)
       IN /\ (event.op = "execute_read_only_query") => (Accepted(event) <=> read_only)
          /\ (event.op = "execute_query") => (Accepted(event) <=> ~read_only)

\* C25: a tool call that fails (no database resolvable, issuance failure,
\* query failure, unknown tool) ends with the response {isError: true,
\* text: "Error: " + message}; the handler neither throws nor returns a
\* success payload, and a failing step never ends a call without an error.
C25_FailureIsErrorResponse ==
    /\ (event.op \notin {"none", "get_database_token"} /\ event.error # NoError)
         => (/\ event.finished
             /\ event.response = [isError |-> TRUE,
                                  text |-> <<"Error: ">> \o event.error.message,
                                  thrown |-> FALSE])
    /\ (event.op \notin {"none", "get_database_token"}
          /\ (\/ event.action \in {"issuance_failed", "query_failed"}
              \/ event.action = "call" /\ event.finished))
         => (event.error # NoError /\ event.response.isError /\ ~event.response.thrown)
    /\ (event.response.isError) => (event.error # NoError)

\* list_tables ended with an error response after its token issuance failed
C25_Witness ==
    /\ event.action = "issuance_failed" /\ event.op = "list_tables"
    /\ event.response.isError /\ ~event.response.thrown
    /\ Head(event.response.text) = "Error: "
    /\ calls[1].pc = "idle"

\* the invocations with an issuance in flight for <<d, p>>
InFlight(cs, d, p) ==
    {c \in Calls : cs[c].pc = "issuing" /\ cs[c].database_name = d /\ cs[c].permission = p}

\* C26: a get_database_token call that misses while an issuance for the same
\* database and permission is still in flight sends its own issuance POST;
\* two issuances for one key are then in flight together.
C26_InFlightIssuanceNotDeduplicated ==
    [][\A d \in TokenDatabases, p \in Permissions :
          (/\ event'.action = "call" /\ event'.op = "get_database_token"
           /\ event'.database_name = d /\ event'.permission = p
           /\ ~event'.hit /\ InFlight(calls, d, p) # {})
          => (/\ issuance_calls' = issuance_calls + 1
              /\ Cardinality(InFlight(calls', d, p)) = Cardinality(InFlight(calls, d, p)) + 1
              /\ \A x, y \in InFlight(calls', d, p) :
                    x # y => calls'[x].req_id # calls'[y].req_id)]_vars

\* two POSTs for the same database and permission are in flight
C26_Witness ==
    /\ calls[1].pc = "issuing" /\ calls[2].pc = "issuing"
    /\ calls[1].database_name = calls[2].database_name
    /\ calls[1].permission = calls[2].permission
    /\ calls[1].req_id # calls[2].req_id
    /\ issuance_calls = 2

\* C27 (as stated): whenever a tool sends its query, the token of the client
\* it uses has not expired at that moment.
C27_QueryTokenUnexpired ==
    (event.contacted /\ exp_decodable(event.auth))
    => (event.auth.exp * MsPerSecond > now)

\* C28 (as stated): every token execute_read_only_query asks for, and the
\* token of every client it sends a query with, is a read-only one.
C28_ReadOnlyToolUsesReadOnlyToken ==
    (event.op = "execute_read_only_query")
    => (/\ event.token_requested => (event.permission = "read-only")
        /\ (event.contacted /\ event.auth.id # 0) => (event.auth.perm = "read-only"))

\* the steps in which a tool call fails after its data-plane call has begun
FailureActions == {"issuance_failed", "query_failed"}

\* C29: an operation that supplies an explicit database name has bound the
\* context to it by the time it waits on the network; a failure of the token
\* issuance or of the query leaves the context as it is; and an operation
\* that then omits the name resolves to the name in the context.
C29_ContextKeptOnFailure ==
    /\ []((/\ event.action = "call" /\ event.resolved /\ Truthy(event.database)
           /\ ~event.finished)
          => (context = event.database /\ event.database_name = event.database))
    /\ [][/\ (event'.action \in FailureActions) => (context' = context)
          /\ (/\ event.action \in FailureActions
              /\ event'.action = "call" /\ event'.resolved
              /\ ~Truthy(event'.database) /\ Truthy(context))
             => (event'.database_name = context)]_vars

\* the only operation that ever resolved a name gave "db1" explicitly and
\* failed at its token issuance; the context is still "db1"
C29_Witness ==
    /\ event.action = "issuance_failed" /\ event.database_name = "db1"
    /\ issuance_calls = 1 /\ Cardinality(DOMAIN client_cache) = 0
    /\ context = "db1" /\ config_default = Undefined

\* C30: a tool call keeps the database name it resolved at its start: the
\* token it receives, the client it caches and queries with, and the response
\* it returns are all for that name, whatever a concurrent call has made of
\* the session context in the meantime.
C30_OperationKeepsResolvedName ==
    [][\A c \in Calls :
          /\ (calls[c].pc = "idle" /\ calls'[c].pc # "idle")
               => (event'.resolved /\ calls'[c].database_name = event'.database_name)
          /\ (calls[c].pc # "idle" /\ calls'[c] # calls[c])
               => (/\ event'.database_name = calls[c].database_name
                   /\ (calls'[c].pc # "idle")
                        => (calls'[c].database_name = calls[c].database_name)
                   /\ (event'.action = "issued")
                        => (/\ event'.jwt.db = calls[c].database_name
                            /\ event'.auth = event'.jwt
                            /\ <<calls[c].database_name, calls[c].permission>>
                                 \in DOMAIN client_cache')
                   /\ (event'.contacted) => (event'.auth.db = calls[c].database_name)
                   /\ (event'.action = "query_ok")
                        => (event'.response =
                              success_response(calls[c].op, calls[c].database_name))
                   /\ (event'.error # NoError)
                        => Mentions(event'.error.message, calls[c].database_name))]_vars

\* a call that resolved "db1" returned its result for "db1" after a
\* concurrent call had bound the context to "db2"
C30_Witness ==
    /\ event.action = "query_ok" /\ event.database_name = "db1"
    /\ Mentions(event.response.text, "db1")
    /\ context = "db2"
    /\ \E c \in Calls : calls[c].pc # "idle" /\ calls[c].database_name = "db2"

====
